---- MODULE Spec2Model ----
(***************************************************************************)
(* The three simulation loops of the population-genetics notebooks:        *)
(*   lecture 02  infinite-alleles model (binomial mutations, multinomial   *)
(*               reproduction, removal of lost alleles),                   *)
(*   lecture 04  Wright-Fisher replicates with selection (binomial draw),  *)
(*   lecture 05  deterministic selection + recombination sweep over a grid *)
(*               of recombination probabilities r.                         *)
(* Each notebook is its own program; mode says which one a behaviour runs. *)
(*                                                                         *)
(* Floating point values are modelled by exact rationals <<n, d>> in       *)
(* lowest terms (d > 0), extended with the IEEE values the notebooks can   *)
(* produce by dividing by zero: <<1,0>> = inf, <<-1,0>> = -inf,            *)
(* <<0,0>> = nan.  Rounding error is not modelled, so "equal within        *)
(* tolerance" is checked as exact equality of the rationals.               *)
(***************************************************************************)
EXTENDS Integers, Sequences, FiniteSets, TLC

(***************************************************************************)
(* Arithmetic of numpy float64 scalars, on extended rationals.             *)
(***************************************************************************)
Abs(x) == IF x < 0 THEN -x ELSE x

RECURSIVE GCD(_, _)
GCD(a, b) == IF b = 0 THEN a ELSE GCD(b, a % b)

Rat(n, d) ==
    LET g == GCD(Abs(n), d) IN <<n \div g, d \div g>>

Zero == <<0, 1>>
One  == <<1, 1>>
NaN  == <<0, 0>>

FromInt(k) == <<k, 1>>
Inf(sign) == <<sign, 0>>

IsFinite(x) == x[2] # 0
IsNaN(x) == x = NaN
Sign(x) == IF x[1] > 0 THEN 1 ELSE IF x[1] < 0 THEN -1 ELSE 0

\* The binary operations take their operands as values: Only({f(a, b) : ...})
\* evaluates each operand expression once.
Only(S) == CHOOSE x \in S : TRUE

RNeg(x) == Only({<<-a[1], a[2]>> : a \in {x}})

AddValues(a, b) ==
    IF IsFinite(a) /\ IsFinite(b)
    THEN LET g == GCD(a[2], b[2])
         IN Rat(a[1] * (b[2] \div g) + b[1] * (a[2] \div g), (a[2] \div g) * b[2])
    ELSE IF IsNaN(a) \/ IsNaN(b) THEN NaN
    ELSE IF IsFinite(a) THEN b
    ELSE IF IsFinite(b) THEN a
    ELSE IF a = b THEN a ELSE NaN

RAdd(x, y) == Only({AddValues(a, b) : a \in {x}, b \in {y}})

RSub(x, y) == RAdd(x, RNeg(y))

MulValues(a, b) ==
    IF IsFinite(a) /\ IsFinite(b)
    THEN LET g1 == GCD(Abs(a[1]), b[2])
             g2 == GCD(Abs(b[1]), a[2])
         IN <<(a[1] \div g1) * (b[1] \div g2), (a[2] \div g2) * (b[2] \div g1)>>
    ELSE IF IsNaN(a) \/ IsNaN(b) \/ Sign(a) = 0 \/ Sign(b) = 0 THEN NaN
    ELSE Inf(Sign(a) * Sign(b))

RMul(x, y) == Only({MulValues(a, b) : a \in {x}, b \in {y}})

\* x / y as numpy computes it: a zero divisor gives inf or nan (with a
\* RuntimeWarning), never an exception.
DivValues(a, b) ==
    IF IsNaN(a) \/ IsNaN(b) THEN NaN
    ELSE IF ~IsFinite(b) THEN (IF IsFinite(a) THEN Zero ELSE NaN)
    ELSE IF b[1] = 0 THEN (IF Sign(a) = 0 THEN NaN ELSE Inf(Sign(a)))
    ELSE IF ~IsFinite(a) THEN Inf(Sign(a) * Sign(b))
    ELSE MulValues(a, <<Sign(b) * b[2], Abs(b[1])>>)

RDiv(x, y) == Only({DivValues(a, b) : a \in {x}, b \in {y}})

\* a < b; every comparison with nan is False.
LessValues(a, b) ==
    IF IsNaN(a) \/ IsNaN(b) THEN FALSE
    ELSE IF IsFinite(a) /\ IsFinite(b) THEN a[1] * b[2] < b[1] * a[2]
    ELSE IF ~IsFinite(a) /\ ~IsFinite(b) THEN a[1] < b[1]
    ELSE IF IsFinite(a) THEN b[1] > 0
    ELSE a[1] < 0

RLess(x, y) == Only({LessValues(a, b) : a \in {x}, b \in {y}})

RLeq(x, y) == Only({~IsNaN(a) /\ ~IsNaN(b) /\ ~LessValues(b, a) : a \in {x}, b \in {y}})

\* ceil of a finite rational
Ceil(x) == -((-x[1]) \div x[2])

(***************************************************************************)
(* State.  mode: which notebook runs ("ia" lecture 02, "wf" lecture 04,    *)
(* "sweep" lecture 05).  Names are the notebooks'; where two notebooks use *)
(* the same name (N, s, i, n_g) the lecture number is appended.            *)
(***************************************************************************)
VARIABLES
    mode,
    \* lecture 02
    N02, u, allele_n, homozygosity, num_alleles, i02, pc02,
    \* lecture 04
    N04, s04, n_A, n_t, n_lost, i04, j04, pc04,
    \* lecture 05
    N05, s05, n_BA, p_end, w_AA, w_AB, w_BA, w_BB,
    r, h, p_AA, p_AB, p_BA, p_BB, p_1A, p_1B, p_2A, p_2B, h0, i05, pc05

iaVars == <<N02, u, allele_n, homozygosity, num_alleles, i02, pc02>>
wfVars == <<N04, s04, n_A, n_t, n_lost, i04, j04, pc04>>
sweepCfg == <<N05, s05, n_BA, p_end, w_AA, w_AB, w_BA, w_BB, r, h0>>
sweepVars == <<sweepCfg, h, p_AA, p_AB, p_BA, p_BB, p_1A, p_1B, p_2A, p_2B, i05, pc05>>
vars == <<mode, iaVars, wfVars, sweepVars>>

(***************************************************************************)
(* Lecture 05: selective sweep with recombination.                         *)
(***************************************************************************)
\* Values of the notebook's parameters explored (the notebook sets N = 2000,
\* s = 0.01, n_BA = 1, p_end = 0.999 and invites other values).
N05Vals == {4, 6}
S05Vals == {<<-3, 1>>, <<-2, 1>>, <<-1, 1>>, <<-1, 2>>, Zero, <<1, 2>>, One, <<2, 1>>}
PEndVals == {<<3, 10>>, <<2, 5>>}
WNeutralVals == {One, Zero}     \* w_AA = w_AB (notebook: 1)

\* r = np.arange(0, 0.5*s + 0.01*s, 0.01*s): the grid runs from 0 to RSpan*s
\* in steps of RStep*s.  The notebook's step factor 0.01 (51 grid points) is
\* coarsened to 1/2 (2 grid points: r = 0 and r = s/2).
RSpan == <<1, 2>>
RStep == <<1, 2>>

\* A tick is taken only from frequencies whose denominators are at most
\* MaxDen, which keeps every intermediate product inside TLC's integers.
MaxDen == 200

\* np.arange(start, stop, step): ceil((stop - start)/step) values
\* start + k*step; a zero step raises ZeroDivisionError (modelled as <<>>
\* together with ArangeFails).
ArangeFails(start, stop, step) == step = Zero
Arange(start, stop, step) ==
    IF ArangeFails(start, stop, step) THEN <<>>
    ELSE LET len == Ceil(RDiv(RSub(stop, start), step))
         IN [k \in 1..(IF len > 0 THEN len ELSE 0) |->
                RAdd(start, RMul(FromInt(k - 1), step))]

\* x * np.ones_like(r), np.zeros(len(r))
Filled(x, like) == [k \in 1..Len(like) |-> x]

\* w_bar = (w_AA * p_AA[i]) + (w_AB * p_AB[i]) + (w_BA * p_BA[i]) + (w_BB * p_BB[i])
WBar(wAA, wAB, wBA, wBB, pAA, pAB, pBA, pBB) ==
    RAdd(RAdd(RAdd(RMul(wAA, pAA), RMul(wAB, pAB)), RMul(wBA, pBA)), RMul(wBB, pBB))

\* the selection term w_G * p_G / w_bar of the update
SelTerm(wG, pG, wbar) == RDiv(RMul(wG, pG), wbar)

\* new_p_G = (1 - r[i])*w_G*p_G[i]/w_bar + r[i] * p_1(g1)[i] * p_2(g2)[i]
NewPUnnormalised(rr, wG, pG, wbar, p1, p2) ==
    RAdd(RMul(RMul(RSub(One, rr), wG), pG), RMul(RMul(rr, p1), p2))
NewPSwappedWeights(rr, wG, pG, wbar, p1, p2) ==
    RAdd(RDiv(RMul(RMul(rr, wG), pG), wbar), RMul(RMul(RSub(One, rr), p1), p2))
NewPNoSelection(rr, wG, pG, wbar, p1, p2) ==
    RAdd(RMul(RSub(One, rr), pG), RMul(RMul(rr, p1), p2))
NewP(rr, wG, pG, wbar, p1, p2) ==
    RAdd(RDiv(RMul(RMul(RSub(One, rr), wG), pG), wbar), RMul(RMul(rr, p1), p2))

\* Python's 0-based i as an index of a 1-based sequence
At(arr, idx) == arr[idx + 1]
PutAll(arr, idx, x) == [k \in 1..Len(arr) |-> x]
Put(arr, idx, x) == [arr EXCEPT ![idx + 1] = x]

Representable(x) == x[2] <= MaxDen

\* the grid bounds of line 63 for selection coefficient s
GridStep(s) == RMul(RStep, s)
GridStop(s) == RAdd(RMul(RSpan, s), GridStep(s))

\* elementwise a + b of two arrays
VecAddFirstOnly(a, b) == a
VecAdd(a, b) == [k \in 1..Len(a) |-> RAdd(a[k], b[k])]

\* the state after the two parameter cells (lines 44-73)
InitSweepWith(Ns, Ss, NBAs, Ps, Ws) ==
    /\ mode = "sweep"
    /\ N05 \in Ns
    /\ s05 \in Ss
    /\ n_BA \in NBAs
    /\ 2 * n_BA <= N05
    /\ p_end \in Ps
    /\ w_BA = RAdd(One, s05) /\ w_BB = RAdd(One, s05)
    /\ w_AA \in Ws /\ w_AB = w_AA
    /\ r = Arange(Zero, GridStop(s05), GridStep(s05))
    /\ h = Filled(Zero, r)
    /\ p_AA = Filled(RDiv(Rat(N05 - 2 * n_BA, 2), FromInt(N05)), r)  \* n_AA = N/2 - n_BA
    /\ p_AB = Filled(RDiv(Rat(N05, 2), FromInt(N05)), r)             \* n_AB = N/2
    /\ p_BA = Filled(RDiv(FromInt(n_BA), FromInt(N05)), r)
    /\ p_BB = Filled(RDiv(Zero, FromInt(N05)), r)                    \* n_BB = 0
    /\ p_1A = VecAdd(p_AA, p_AB)
    /\ p_1B = VecAdd(p_BA, p_BB)
    /\ p_2A = VecAdd(p_AA, p_BA)
    /\ p_2B = VecAdd(p_AB, p_BB)
    /\ h0 = IF Len(r) > 0 THEN RMul(p_2A[1], p_2B[1]) ELSE NaN
    /\ i05 = 0
    /\ pc05 = IF ArangeFails(Zero, GridStop(s05), GridStep(s05)) THEN "error"
              ELSE IF Len(r) = 0 THEN "done" ELSE "loop"

\* w_bar of sweep point i (line 80)
MeanFitness05 ==
    WBar(w_AA, w_AB, w_BA, w_BB,
         At(p_AA, i05), At(p_AB, i05), At(p_BA, i05), At(p_BB, i05))

\* one iteration of `while p_1B[i] < p_end` (lines 77-96)
Tick ==
    /\ mode = "sweep" /\ pc05 = "loop"
    /\ RLess(At(p_1B, i05), p_end)
    /\ \A x \in {At(p_AA, i05), At(p_AB, i05), At(p_BA, i05), At(p_BB, i05)} :
           Representable(x)
    /\ LET w_bar == MeanFitness05
           new_p_AA == NewP(At(r, i05), w_AA, At(p_AA, i05), w_bar, At(p_1A, i05), At(p_2A, i05))
           new_p_AB == NewP(At(r, i05), w_AB, At(p_AB, i05), w_bar, At(p_1A, i05), At(p_2B, i05))
           new_p_BA == NewP(At(r, i05), w_BA, At(p_BA, i05), w_bar, At(p_1B, i05), At(p_2A, i05))
           new_p_BB == NewP(At(r, i05), w_BB, At(p_BB, i05), w_bar, At(p_1B, i05), At(p_2B, i05))
       IN /\ p_AA' = Put(p_AA, i05, new_p_AA)
          /\ p_AB' = Put(p_AB, i05, new_p_AB)
          /\ p_BA' = Put(p_BA, i05, new_p_BA)
          /\ p_BB' = Put(p_BB, i05, new_p_BB)
          /\ p_1A' = Put(p_1A, i05, RAdd(new_p_AA, new_p_AB))
          /\ p_1B' = Put(p_1B, i05, RAdd(new_p_BA, new_p_BB))
          /\ p_2A' = Put(p_2A, i05, RAdd(new_p_AA, new_p_BA))
          /\ p_2B' = Put(p_2B, i05, RAdd(new_p_AB, new_p_BB))
    /\ UNCHANGED <<mode, iaVars, wfVars, sweepCfg, h, i05, pc05>>

\* the while loop ends: h[i] = p_2A[i] * p_2B[i] / h0, and the for loop
\* moves to the next r (lines 75, 99)
SaveH ==
    /\ mode = "sweep" /\ pc05 = "loop"
    /\ ~RLess(At(p_1B, i05), p_end)
    /\ h' = Put(h, i05, RDiv(RMul(At(p_2A, i05), At(p_2B, i05)), h0))
    /\ i05' = i05 + 1
    /\ pc05' = IF i05 + 1 < Len(r) THEN "loop" ELSE "done"
    /\ UNCHANGED <<mode, iaVars, wfVars, sweepCfg,
                   p_AA, p_AB, p_BA, p_BB, p_1A, p_1B, p_2A, p_2B>>

NextSweep == Tick \/ SaveH

(***************************************************************************)
(* numpy.random draws: every outcome the generator can return.             *)
(***************************************************************************)
\* rng.binomial(n, p) raises ValueError when p < 0, p > 1 or p is nan
BinomialFails(n, p) == IsNaN(p) \/ RLess(p, Zero) \/ RLess(One, p)

\* the values rng.binomial(n, p) can return
BinomialSupport(n, p) ==
    IF p = Zero THEN {0}
    ELSE IF p = One THEN {n}
    ELSE 0..n

RECURSIVE Compositions(_, _)
\* all sequences of k naturals that sum to n
Compositions(n, k) ==
    IF k = 0 THEN (IF n = 0 THEN {<<>>} ELSE {})
    ELSE UNION {{<<first>> \o rest : rest \in Compositions(n - first, k - 1)} :
                first \in 0..n}

\* the vectors rng.multinomial(n, pvals) can return: counts that sum to n,
\* zero wherever pvals is zero
MultinomialSupport(n, pvals) ==
    {m \in Compositions(n, Len(pvals)) :
        \A k \in 1..Len(pvals) : pvals[k] = Zero => m[k] = 0}

(***************************************************************************)
(* Lecture 04: Wright-Fisher replicates with selection.                    *)
(***************************************************************************)
\* the notebook sets N = 100, s = 0.01, n_A = 1 and invites other values,
\* deleterious s < 0 among them
N04Vals == {2}
S04Vals == {<<-2, 1>>, <<-1, 1>>, <<-1, 2>>, Zero, <<1, 100>>}

n_g04 == 3     \* number of generations of evolution (notebook: 100)
n_r == 2       \* number of replicate simulations (notebook: 50)

\* the denominator of p_A, N times the mean fitness:
\* n_t[i][j] * (1 + s) + N - n_t[i][j]
WSum04NoSubtract(n, s, N) == RAdd(RMul(FromInt(n), RAdd(One, s)), FromInt(N))
WSum04(n, s, N) ==
    RSub(RAdd(RMul(FromInt(n), RAdd(One, s)), FromInt(N)), FromInt(n))

\* p_A = n_t[i][j] * (1 + s) / (n_t[i][j] * (1 + s) + N - n_t[i][j])
PAUnweightedMean(n, s, N) == RDiv(RMul(FromInt(n), RAdd(One, s)), FromInt(N))
PA(n, s, N) == RDiv(RMul(FromInt(n), RAdd(One, s)), WSum04(n, s, N))

\* the values n_t[i][j+1] = rng.binomial(N, p_A) can store (line 281)
NextCountDiploid(N, p_A) == BinomialSupport(2 * N, p_A)
NextCount(N, p_A) == BinomialSupport(N, p_A)

\* n_t[row][col], 0-based
Cell(row, col) == n_t[row + 1][col + 1]

InitWF ==
    /\ mode = "wf"
    /\ N04 \in N04Vals
    /\ s04 \in S04Vals
    /\ n_A \in 0..N04
    /\ n_t = [row \in 1..n_r |-> [col \in 1..n_g04 |-> 0]]
    /\ n_lost = 0
    /\ i04 = 0 /\ j04 = 0
    /\ pc04 = "start"

\* n_t[i][0] = n_A (line 277)
WFStart ==
    /\ mode = "wf" /\ pc04 = "start"
    /\ n_t' = [n_t EXCEPT ![i04 + 1][1] = n_A]
    /\ j04' = 0
    /\ pc04' = IF 0 < n_g04 - 1 THEN "gen" ELSE "check"
    /\ UNCHANGED <<mode, iaVars, sweepVars, N04, s04, n_A, n_lost, i04>>

\* one iteration of the inner loop (lines 279-281)
WFGen ==
    /\ mode = "wf" /\ pc04 = "gen"
    /\ LET p_A == PA(Cell(i04, j04), s04, N04)
       IN /\ ~BinomialFails(N04, p_A)
          /\ \E k \in NextCount(N04, p_A) :
                n_t' = [n_t EXCEPT ![i04 + 1][j04 + 2] = k]
    /\ j04' = j04 + 1
    /\ pc04' = IF j04 + 1 < n_g04 - 1 THEN "gen" ELSE "check"
    /\ UNCHANGED <<mode, iaVars, sweepVars, N04, s04, n_A, n_lost, i04>>

\* rng.binomial rejects p_A: the ValueError ends the run
WFGenError ==
    /\ mode = "wf" /\ pc04 = "gen"
    /\ BinomialFails(N04, PA(Cell(i04, j04), s04, N04))
    /\ pc04' = "error"
    /\ UNCHANGED <<mode, iaVars, sweepVars, N04, s04, n_A, n_t, n_lost, i04, j04>>

\* if n_t[i][-1]==0: n_lost += 1, then the next replicate (lines 275, 283-284)
WFCheck ==
    /\ mode = "wf" /\ pc04 = "check"
    /\ n_lost' = IF Cell(i04, n_g04 - 1) = 0 THEN n_lost + 1 ELSE n_lost
    /\ i04' = i04 + 1
    /\ pc04' = IF i04 + 1 < n_r THEN "start" ELSE "done"
    /\ UNCHANGED <<mode, iaVars, sweepVars, N04, s04, n_A, n_t, j04>>

NextWF == WFStart \/ WFGen \/ WFGenError \/ WFCheck

(***************************************************************************)
(* Lecture 02: infinite-alleles model.                                     *)
(***************************************************************************)
\* the notebook sets N = 100, u = 0.05, num = 10 and invites other values
N02Vals == {1, 2}
UVals == {Zero, <<1, 20>>, One}

n_g02 == 3     \* number of generations to simulate (notebook: 1000)

RECURSIVE SumSeq(_)
\* np.sum of a list of counts
SumSeq(q) == IF q = <<>> THEN 0 ELSE Head(q) + SumSeq(Tail(q))

RECURSIVE SumSquares(_)
SumSquares(q) ==
    IF q = <<>> THEN Zero ELSE RAdd(RMul(Head(q), Head(q)), SumSquares(Tail(q)))

\* np.array(alleles)/np.sum(alleles)
Freqs(alleles) ==
    [k \in 1..Len(alleles) |-> RDiv(FromInt(alleles[k]), FromInt(SumSeq(alleles)))]

\* get_h: the sum of p[i]**2 over p = alleles/sum(alleles)
get_hUnnormalised(alleles) ==
    SumSquares([k \in 1..Len(alleles) |-> FromInt(alleles[k])])
get_h(alleles) == SumSquares(Freqs(alleles))

\* np.array(x)[np.array(x) > 0]
Positive(q) == SelectSeq(q, LAMBDA c : c > 0)

\* new_alleles entries 1 appended
Ones(k) == [j \in 1..k |-> 1]

\* Option 1: allele_n = [2*N];  Option 2: allele_n = [2*N/num]*num, with the
\* number of starting alleles num dividing 2N as in the notebook (200/10)
InitialAlleles(N) ==
    {<<2 * N>>} \cup
    {[k \in 1..num |-> (2 * N) \div num] : num \in {d \in 1..(2 * N) : (2 * N) % d = 0}}

InitIA ==
    /\ mode = "ia"
    /\ N02 \in N02Vals
    /\ u \in UVals
    /\ allele_n \in InitialAlleles(N02)
    /\ homozygosity = [k \in 1..n_g02 |-> Zero]
    /\ num_alleles = [k \in 1..n_g02 |-> 0]
    /\ i02 = 0
    /\ pc02 = IF 0 < n_g02 THEN "loop" ELSE "done"

\* the n of rng.multinomial: 2*N - new_alleles (line 94)
SurvivorsAll(N, new_alleles) == 2 * N
Survivors(N, new_alleles) == 2 * N - new_alleles

\* the list the multinomial draw m and new_alleles mutations leave (lines 94-101)
NewAlleleNKeepLost(m, new_alleles) == m \o Ones(new_alleles)
NewAlleleN(m, new_alleles) == Positive(m \o Ones(new_alleles))

\* one iteration of the generation loop (lines 84-104)
IAGenerationUpdateThenRecord ==
    /\ mode = "ia" /\ pc02 = "loop"
    /\ \E new_alleles \in BinomialSupport(2 * N02, u) :
         \E m \in MultinomialSupport(Survivors(N02, new_alleles), Freqs(allele_n)) :
            allele_n' = NewAlleleN(m, new_alleles)
    /\ homozygosity' = Put(homozygosity, i02, get_h(allele_n'))
    /\ num_alleles' = Put(num_alleles, i02, Len(allele_n'))
    /\ i02' = i02 + 1
    /\ pc02' = IF i02 + 1 < n_g02 THEN "loop" ELSE "done"
    /\ UNCHANGED <<mode, wfVars, sweepVars, N02, u>>
IAGeneration ==
    /\ mode = "ia" /\ pc02 = "loop"
    /\ homozygosity' = Put(homozygosity, i02, get_h(allele_n))
    /\ num_alleles' = Put(num_alleles, i02, Len(allele_n))
    /\ \E new_alleles \in BinomialSupport(2 * N02, u) :
         \E m \in MultinomialSupport(Survivors(N02, new_alleles), Freqs(allele_n)) :
            allele_n' = NewAlleleN(m, new_alleles)
    /\ i02' = i02 + 1
    /\ pc02' = IF i02 + 1 < n_g02 THEN "loop" ELSE "done"
    /\ UNCHANGED <<mode, wfVars, sweepVars, N02, u>>

NextIA == IAGeneration

(***************************************************************************)
(* Specifications.                                                         *)
(***************************************************************************)
\* the other notebooks' variables while one notebook runs
IdleIA ==
    /\ N02 = 0 /\ u = Zero /\ allele_n = <<>> /\ homozygosity = <<>>
    /\ num_alleles = <<>> /\ i02 = 0 /\ pc02 = "idle"
IdleWF ==
    /\ N04 = 0 /\ s04 = Zero /\ n_A = 0 /\ n_t = <<>> /\ n_lost = 0
    /\ i04 = 0 /\ j04 = 0 /\ pc04 = "idle"
IdleSweep ==
    /\ N05 = 0 /\ s05 = Zero /\ n_BA = 0 /\ p_end = Zero
    /\ w_AA = Zero /\ w_AB = Zero /\ w_BA = Zero /\ w_BB = Zero
    /\ r = <<>> /\ h = <<>> /\ p_AA = <<>> /\ p_AB = <<>> /\ p_BA = <<>>
    /\ p_BB = <<>> /\ p_1A = <<>> /\ p_1B = <<>> /\ p_2A = <<>> /\ p_2B = <<>>
    /\ h0 = Zero /\ i05 = 0 /\ pc05 = "idle"

Init ==
    \/ InitIA /\ IdleWF /\ IdleSweep
    \/ InitWF /\ IdleIA /\ IdleSweep
    \/ InitSweepWith(N05Vals, S05Vals, 0..3, PEndVals, WNeutralVals) /\ IdleIA /\ IdleWF

Next == NextIA \/ NextWF \/ NextSweep

Spec == Init /\ [][Next]_vars

\* The sweep alone, with beneficial s, as the sequential program it is: the
\* interpreter always executes the next statement.  The beneficial allele
\* is absent or starts at frequency MinStart or more, and p_end is low, so
\* that a sweep point that reaches p_end does so on representable values.
S05Beneficial == {<<1, 2>>, One, <<2, 1>>}
PEndLow == {<<3, 10>>, <<1, 3>>, <<7, 20>>}
MinStart == <<1, 4>>
InitSweepFair ==
    /\ InitSweepWith({4, 6, 8}, S05Beneficial, 0..4, PEndLow, {One})
    /\ (n_BA = 0 \/ RLeq(MinStart, p_1B[1]))
    /\ IdleIA /\ IdleWF
SpecSweepFair == InitSweepFair /\ [][NextSweep]_vars /\ WF_vars(NextSweep)

(***************************************************************************)
(* Properties.                                                             *)
(***************************************************************************)
\* C1: in the infinite-alleles run the entries of allele_n sum to 2N at the
\* start of the run and after every iteration of the generation loop,
\* whatever number of mutations and whatever multinomial outcome was drawn.
CountConservation == mode = "ia" => SumSeq(allele_n) = 2 * N02

\* a run with u = 1 (every generation draws 2N mutations) that has finished
\* from a start with a single allele
CountConservationWitness ==
    /\ mode = "ia" /\ pc02 = "done" /\ u = One /\ N02 = 2
    /\ num_alleles[1] = 1 /\ Len(allele_n) = 2 * N02

\* C3: in every replicate and generation the recorded count of A alleles
\* is an integer between 0 and N, and a started replicate begins at n_A.
CountInRange ==
    mode = "wf" =>
        /\ \A row \in 1..n_r : \A col \in 1..n_g04 : n_t[row][col] \in 0..N04
        /\ \A row \in 1..n_r :
              (row - 1 < i04 \/ (row - 1 = i04 /\ pc04 # "start")) => n_t[row][1] = n_A

\* a finished run whose last replicate went from n_A = 1 to fixation
CountInRangeWitness ==
    /\ mode = "wf" /\ pc04 = "done" /\ n_A = 1
    /\ n_t[n_r][1] = 1 /\ n_t[n_r][n_g04] = N04

\* C4: at the start of every generation every entry of allele_n is a
\* positive integer: an allele whose count fell to 0 is not kept.
NoLostAlleleStored ==
    mode = "ia" => \A k \in 1..Len(allele_n) : allele_n[k] \in Nat \ {0}

\* a generation that began with several alleles and left a single one: the
\* others drew count 0 and were removed
NoLostAlleleStoredWitness ==
    /\ mode = "ia" /\ i02 = 1 /\ num_alleles[1] > 1 /\ Len(allele_n) = 1

\* the columns of row (0-based) that have been written so far
Written(row) ==
    IF row < i04 THEN 0..(n_g04 - 1)
    ELSE IF row = i04 /\ pc04 \in {"gen", "check", "error"} THEN 0..j04
    ELSE {}

\* C7: counts 0 and N are absorbing but not terminal: after a recorded 0
\* every later recorded count of the replicate is 0, after a recorded N
\* every later one is N, and the inner loop is left only after all n_g
\* generations (reaching 0 or N does not end it early).
AbsorbingNotTerminal ==
    mode = "wf" =>
        /\ \A row \in 0..(n_r - 1) : \A c1, c2 \in Written(row) :
              c1 < c2 =>
                 /\ Cell(row, c1) = 0 => Cell(row, c2) = 0
                 /\ Cell(row, c1) = N04 => Cell(row, c2) = N04
        /\ pc04 = "check" => j04 = n_g04 - 1

\* a replicate that started at 0 < n_A < N, reached 0, and went on drawing,
\* and one that reached N and went on drawing
AbsorbingNotTerminalWitness ==
    /\ mode = "wf" /\ pc04 = "done" /\ n_A = 1 /\ N04 = 2
    /\ n_t[1][2] = 0 /\ n_t[1][n_g04] = 0
    /\ n_t[2][2] = N04 /\ n_t[2][n_g04] = N04

\* the four genotype frequencies of sweep point k (1-based)
Genotypes(k) == <<p_AA[k], p_AB[k], p_BA[k], p_BB[k]>>
AllFinite(q) == \A j \in 1..Len(q) : IsFinite(q[j])

\* C2: in the sweep, for every sweep point, the four genotype frequencies
\* sum to 1 initially and after every selection+recombination update
\* (whenever the update produced numbers, i.e. w_bar was not 0).
FrequencyConservation ==
    mode = "sweep" =>
        \A k \in 1..Len(r) :
            AllFinite(Genotypes(k)) =>
                RAdd(RAdd(RAdd(p_AA[k], p_AB[k]), p_BA[k]), p_BB[k]) = One

\* a tick with 0 < r < 1 and s > 0 has produced BB recombinants
FrequencyConservationWitness ==
    /\ mode = "sweep" /\ Len(r) = 2 /\ i05 = 1
    /\ RLess(Zero, r[2]) /\ RLess(r[2], One) /\ w_AA = One
    /\ IsFinite(p_BB[2]) /\ RLess(Zero, p_BB[2])

\* C5: at r = 0 (the first sweep point) every tick sets each genotype
\* frequency to the selection-only value w_G * p_G / w_bar.
NoRecombinationIsSelection ==
    [][(Tick /\ At(r, i05) = Zero) =>
          /\ At(p_AA, i05)' = SelTerm(w_AA, At(p_AA, i05), MeanFitness05)
          /\ At(p_AB, i05)' = SelTerm(w_AB, At(p_AB, i05), MeanFitness05)
          /\ At(p_BA, i05)' = SelTerm(w_BA, At(p_BA, i05), MeanFitness05)
          /\ At(p_BB, i05)' = SelTerm(w_BB, At(p_BB, i05), MeanFitness05)]_vars

\* a tick at r[0] = 0 has changed the BA frequency
NoRecombinationIsSelectionWitness ==
    /\ mode = "sweep" /\ Len(r) > 0 /\ i05 = 0 /\ r[1] = Zero
    /\ IsFinite(p_BA[1]) /\ RLess(Zero, p_BA[1])
    /\ p_BA[1] # RDiv(FromInt(n_BA), FromInt(N05))

\* C6: with s = 0 selection is the identity: the binomial probability p_A
\* of lecture 04 is n/N for every count n in 0..N, and on every frequency
\* vector the sweep reaches the selection term w_G * p_G / w_bar computed
\* with all four fitnesses 1 (w_B = 1 + 0) is p_G.
NoSelectionIsIdentity ==
    /\ (mode = "wf" /\ s04 = Zero) =>
           \A n \in 0..N04 : PA(n, s04, N04) = Rat(n, N04)
    /\ mode = "sweep" =>
           \A k \in 1..Len(r) :
               AllFinite(Genotypes(k)) =>
                   LET w == RAdd(One, Zero)
                       w_bar == WBar(One, One, w, w, p_AA[k], p_AB[k], p_BA[k], p_BB[k])
                   IN /\ SelTerm(One, p_AA[k], w_bar) = p_AA[k]
                      /\ SelTerm(One, p_AB[k], w_bar) = p_AB[k]
                      /\ SelTerm(w, p_BA[k], w_bar) = p_BA[k]
                      /\ SelTerm(w, p_BB[k], w_bar) = p_BB[k]

\* a neutral Wright-Fisher replicate about to draw from an intermediate count
NoSelectionIsIdentityWitness ==
    /\ mode = "wf" /\ s04 = Zero /\ pc04 = "gen" /\ j04 = 1
    /\ Cell(i04, j04) = 1 /\ N04 = 2

\* C8: a sweep run never loops forever: it reaches the end of the sweep
\* (or fails), whatever the configuration.
SweepHalts == <>(mode = "sweep" => pc05 \in {"done", "error"})

\* C9: a selection step is never taken with mean fitness <= 0: neither
\* the sweep tick nor the Wright-Fisher draw produces a next state from it.
FailFastOnNonPositiveMeanFitness ==
    [][/\ Tick => RLess(Zero, MeanFitness05)
       /\ WFGen => RLess(Zero, WSum04(Cell(i04, j04), s04, N04))]_vars

SweepDone == pc05 = "done" /\ i05 = Len(r)
AllBelowOne(q) == \A k \in 1..Len(q) : RLess(q[k], One)

\* C10 as stated: with s > 0 and initial p_1B > 0 the loop of every sweep
\* point terminates and the sweep completes.
SweepCompletesForBeneficial ==
    (mode = "sweep" /\ RLess(Zero, s05) /\ n_BA > 0) ~> SweepDone

\* C10 amended: with s > 0, initial p_1B > 0 and every configured r below 1
\* the loop of every sweep point terminates and the sweep completes.
SweepCompletes ==
    (mode = "sweep" /\ RLess(Zero, s05) /\ n_BA > 0 /\ AllBelowOne(r)) ~> SweepDone

\* a completed sweep from a single beneficial copy whose r > 0 point took
\* at least one tick
SweepCompletesWitness ==
    /\ mode = "sweep" /\ SweepDone /\ n_BA = 1 /\ RLess(Zero, s05)
    /\ Len(r) = 2 /\ RLess(Zero, r[2]) /\ RLess(r[2], One)
    /\ RLeq(p_end, p_1B[2]) /\ RLess(Zero, p_BB[2])

\* C11: the history of a run is determined by its configuration: whenever
\* a generation draws from the random source, the state the run holds leaves
\* a single possible outcome (the run holds no seed and no generator state;
\* rng is the numpy.random module itself).
HistoryDeterminedByRun ==
    [][/\ WFGen =>
            Cardinality(NextCount(N04, PA(Cell(i04, j04), s04, N04))) = 1
       /\ IAGeneration =>
            /\ Cardinality(BinomialSupport(2 * N02, u)) = 1
            /\ \A k \in BinomialSupport(2 * N02, u) :
                  Cardinality(MultinomialSupport(Survivors(N02, k),
                                                 Freqs(allele_n))) = 1]_vars

\* the marginal frequency of an allele after selection alone
AfterSelection(wG, pG) == SelTerm(wG, pG, MeanFitness05)
\* (1 - r) * selection output + r * product of post-selection marginals
RecombineSelected(rr, sG, m1, m2) ==
    RAdd(RMul(RSub(One, rr), sG), RMul(RMul(rr, m1), m2))

\* C12 as stated: a tick applies selection, then recombination with the
\* marginal allele frequencies of the post-selection genotype frequencies
\* of the same tick (mean fitness positive).
MarginalsFromSelected ==
    [][(Tick /\ RLess(Zero, MeanFitness05)) =>
         LET sAA == AfterSelection(w_AA, At(p_AA, i05))
             sAB == AfterSelection(w_AB, At(p_AB, i05))
             sBA == AfterSelection(w_BA, At(p_BA, i05))
             sBB == AfterSelection(w_BB, At(p_BB, i05))
             rr == At(r, i05)
         IN /\ At(p_AA, i05)' = RecombineSelected(rr, sAA, RAdd(sAA, sAB), RAdd(sAA, sBA))
            /\ At(p_AB, i05)' = RecombineSelected(rr, sAB, RAdd(sAA, sAB), RAdd(sAB, sBB))
            /\ At(p_BA, i05)' = RecombineSelected(rr, sBA, RAdd(sBA, sBB), RAdd(sAA, sBA))
            /\ At(p_BB, i05)' = RecombineSelected(rr, sBB, RAdd(sBA, sBB), RAdd(sAB, sBB))]_vars

\* C12 amended: a tick sets each genotype frequency to (1 - r) times its
\* selection output plus r times the product of the marginal allele
\* frequencies of the genotype frequencies the tick started from.
MarginalsFromTickStart ==
    [][Tick =>
         LET pAA == At(p_AA, i05)
             pAB == At(p_AB, i05)
             pBA == At(p_BA, i05)
             pBB == At(p_BB, i05)
             rr == At(r, i05)
         IN /\ At(p_AA, i05)' = RecombineSelected(rr, AfterSelection(w_AA, pAA),
                                                  RAdd(pAA, pAB), RAdd(pAA, pBA))
            /\ At(p_AB, i05)' = RecombineSelected(rr, AfterSelection(w_AB, pAB),
                                                  RAdd(pAA, pAB), RAdd(pAB, pBB))
            /\ At(p_BA, i05)' = RecombineSelected(rr, AfterSelection(w_BA, pBA),
                                                  RAdd(pBA, pBB), RAdd(pAA, pBA))
            /\ At(p_BB, i05)' = RecombineSelected(rr, AfterSelection(w_BB, pBB),
                                                  RAdd(pBA, pBB), RAdd(pAB, pBB))]_vars

\* a tick at 0 < r < 1 with s > 0 has moved the stored marginal p_1B of its
\* sweep point away from its initial value
MarginalsFromTickStartWitness ==
    /\ mode = "sweep" /\ Len(r) = 2 /\ i05 = 1 /\ w_AA = One /\ RLess(Zero, s05)
    /\ RLess(Zero, r[2]) /\ RLess(r[2], One)
    /\ IsFinite(p_1B[2]) /\ p_1B[2] # RDiv(FromInt(n_BA), FromInt(N05))
    /\ p_1B[2] = RAdd(p_BA[2], p_BB[2])

\* C13 as stated: the statistic is recorded after each tick from the state
\* the tick produced, so the last entries of homozygosity and num_alleles
\* describe the final allele list of the run.
LastEntryDescribesFinalState ==
    (mode = "ia" /\ pc02 = "done") =>
        /\ homozygosity[n_g02] = get_h(allele_n)
        /\ num_alleles[n_g02] = Len(allele_n)

\* C13 amended: iteration i of the generation loop records the statistics
\* of the list it starts from, homozygosity[i] and num_alleles[i], leaves
\* every other entry alone, and does not record the list it produces.
RecordedBeforeUpdate ==
    [][IAGeneration =>
         /\ At(homozygosity', i02) = SumSquares(Freqs(allele_n))
         /\ At(num_alleles', i02) = Len(allele_n)
         /\ \A k \in 1..n_g02 :
               k # i02 + 1 => /\ homozygosity'[k] = homozygosity[k]
                              /\ num_alleles'[k] = num_alleles[k]
         /\ \A k \in 1..n_g02 :
               k > i02 + 1 => homozygosity'[k] = Zero /\ num_alleles'[k] = 0]_vars

\* a finished run whose last recorded entry is not the statistic of the
\* final list: the last update turned a single allele into several
RecordedBeforeUpdateWitness ==
    /\ mode = "ia" /\ pc02 = "done"
    /\ num_alleles[n_g02] = 1 /\ homozygosity[n_g02] = One
    /\ Len(allele_n) > 1

\* arrays a and b agree at every index other than idx (0-based)
SameElsewhere(a, b, idx) ==
    Len(a) = Len(b) /\ \A k \in 1..Len(a) : k # idx + 1 => a[k] = b[k]

\* C14: a tick of sweep point i changes only index i of the eight frequency
\* arrays and saving h[i] changes only index i of h; s, N, p_end, h0, r and
\* the fitness values never change.  In lecture 04 a step of replicate i
\* writes only row i of n_t, n_A never changes, and every replicate starts
\* from n_A.
NoCrossTalk ==
    [][/\ Tick =>
            /\ \A arrs \in {<<p_AA, p_AA'>>, <<p_AB, p_AB'>>, <<p_BA, p_BA'>>,
                            <<p_BB, p_BB'>>, <<p_1A, p_1A'>>, <<p_1B, p_1B'>>,
                            <<p_2A, p_2A'>>, <<p_2B, p_2B'>>} :
                  SameElsewhere(arrs[1], arrs[2], i05)
            /\ h' = h
       /\ SaveH =>
            /\ SameElsewhere(h, h', i05)
            /\ <<p_AA, p_AB, p_BA, p_BB, p_1A, p_1B, p_2A, p_2B>>' =
               <<p_AA, p_AB, p_BA, p_BB, p_1A, p_1B, p_2A, p_2B>>
       /\ NextSweep =>
            <<s05, N05, p_end, h0, r, w_AA, w_AB, w_BA, w_BB>>' =
            <<s05, N05, p_end, h0, r, w_AA, w_AB, w_BA, w_BB>>
       /\ NextWF =>
            /\ SameElsewhere(n_t, n_t', i04)
            /\ n_A' = n_A /\ s04' = s04 /\ N04' = N04
       /\ WFStart => Cell(i04, 0)' = n_A]_vars

\* the second sweep point has ticked and its h is saved: its frequencies
\* have left the initial values while the first point keeps its own
NoCrossTalkWitness ==
    /\ mode = "sweep" /\ pc05 = "done" /\ Len(r) = 2 /\ w_AA = One
    /\ RLess(Zero, s05) /\ n_BA > 0
    /\ p_BB[1] = Zero /\ RLess(Zero, p_BB[2])
    /\ h[1] # h[2]

\* C15: the success probability handed to rng.binomial lies in [0, 1] for
\* every count a replicate reaches and every configured s.
PAInUnitInterval ==
    (mode = "wf" /\ pc04 = "gen") =>
        LET p_A == PA(Cell(i04, j04), s04, N04)
        IN IsFinite(p_A) /\ RLeq(Zero, p_A) /\ RLeq(p_A, One)

RECURSIVE SumOfSquaredCounts(_)
SumOfSquaredCounts(q) ==
    IF q = <<>> THEN 0 ELSE Head(q) * Head(q) + SumOfSquaredCounts(Tail(q))

\* C16: the homozygosity a generation records is the sum of (c_i / 2N)^2
\* over the allele counts c_i of that generation; with n the recorded
\* number of alleles it satisfies 1/n <= G <= 1, and G = 1 exactly when
\* n = 1.
HomozygosityIsSumOfSquares ==
    [][IAGeneration =>
         LET G == At(homozygosity', i02)
             n == At(num_alleles', i02)
         IN /\ G = Rat(SumOfSquaredCounts(allele_n), (2 * N02) * (2 * N02))
            /\ n >= 1
            /\ RLeq(Rat(1, n), G) /\ RLeq(G, One)
            /\ (G = One <=> n = 1)]_vars

\* a recorded generation with two alleles of unequal counts 3 and 1:
\* G = 10/16, strictly between 1/2 and 1
HomozygosityIsSumOfSquaresWitness ==
    /\ mode = "ia" /\ N02 = 2 /\ i02 >= 2
    /\ \E k \in 2..i02 : num_alleles[k] = 2 /\ homozygosity[k] = <<5, 8>>

====
